---- MODULE Spec2Model ----
(***************************************************************************)
(* Calling-convention recovery core of revng.                              *)
(*                                                                         *)
(*  - the RegisterState lattice and its merge operator `combine`           *)
(*    (lib/ABIAnalyses/ABIAnalysis.cpp, here src/unnamed/part_000)         *)
(*  - the oracle of per-entry-point summaries, FunctionAnalysisResults,    *)
(*    with FunctionSummary::compare and registerFunction                   *)
(*    (include/revng/StackAnalysis/StackAnalysis.h)                        *)
(***************************************************************************)
EXTENDS Integers, FiniteSets, Sequences, TLC

VARIABLES
    LH,               \* first operand handed to combine
    RH,               \* second operand handed to combine
    TH,               \* third operand, for the nested calls
    Result,           \* outcome of each call of combine made so far
    Emitted,          \* outcome of shouldEmit(LH)
    FunctionsBucket,  \* FunctionAnalysisResults::FunctionsBucket
    DefaultSummary,   \* FunctionAnalysisResults::DefaultSummary
    Last,             \* the last registerFunction call: arguments, old entry, return value
    Got,              \* what the getters returned when last called, and for which entry
    Fn,               \* the outlined function: its blocks and what the analyses say of them
    Results,          \* analyzeOutlinedFunction: PartialAnalysisResults Results
    FinalResults,     \* analyzeOutlinedFunction: ABIAnalysesResults FinalResults
    apc,              \* analyzeOutlinedFunction: where it is
    Contradicted,     \* the places where a Contradiction has been written
    RegV,             \* a model::Register::Values
    RegArch,          \* an llvm::Triple::ArchType
    RegName,          \* what getRegisterName(RegV) returned
    RegParsed,        \* what fromRegisterName(RegName, RegArch) returned
    CSVAliasInfoMap,  \* CSVAliasAnalysisPass::CSVAliasInfoMap
    AllCSVScopes,     \* CSVAliasAnalysisPass::AllCSVScopes
    AliasRuns,        \* how many times CSVAliasAnalysisPass::run was entered
    AliasF,           \* the instructions of the function it runs on, with metadata
    aliasPC,          \* CSVAliasAnalysisPass::run: where it is
    HelperIn,         \* the function RemoveHelperCallsPass::run is given
    HelperF,          \* that function as the pass has changed it so far
    ToReplace,        \* RemoveHelperCallsPass::run: ToReplace, what is left of it
    helperPC,         \* RemoveHelperCallsPass::run: where it is
    Binary,           \* EnforceABIImpl: the model, the Type of each function
    ModuleCall,       \* a call instruction of the module EnforceABI runs on
    OldToNew,         \* EnforceABIImpl::OldToNew
    RegularCalls,     \* EnforceABIImpl::run: RegularCalls, what is left of it
    NewCalls,         \* the calls generateCall has emitted
    enforcePC,        \* EnforceABIImpl::run: where it is
    Analyses,         \* fixpoint driver: the analysis of each entry point
    Queue,            \* fixpoint driver: the entry points to analyze
    driverPC          \* fixpoint driver: where it is and what it has counted

vars == <<LH, RH, TH, Result, Emitted, FunctionsBucket, DefaultSummary, Last, Got,
          Fn, Results, FinalResults, apc, Contradicted,
          RegV, RegArch, RegName, RegParsed,
          CSVAliasInfoMap, AllCSVScopes, AliasRuns, AliasF, aliasPC,
          HelperIn, HelperF, ToReplace, helperPC,
          Binary, ModuleCall, OldToNew, RegularCalls, NewCalls, enforcePC,
          Analyses, Queue, driverPC>>

combineVars == <<LH, RH, TH, Result, Emitted>>
oracleVars == <<FunctionsBucket, DefaultSummary, Last, Got>>
abiVars == <<Fn, Results, FinalResults, apc, Contradicted>>
registerVars == <<RegV, RegArch, RegName, RegParsed>>
aliasVars == <<CSVAliasInfoMap, AllCSVScopes, AliasRuns, AliasF, aliasPC>>
helperVars == <<HelperIn, HelperF, ToReplace, helperPC>>
enforceVars == <<Binary, ModuleCall, OldToNew, RegularCalls, NewCalls, enforcePC>>
driverVars == <<Analyses, Queue, driverPC>>
passVars == <<registerVars, aliasVars, helperVars, enforceVars, driverVars>>
exceptDriverVars ==
    <<combineVars, abiVars, registerVars, aliasVars, helperVars, enforceVars>>
coreVars == <<combineVars, oracleVars, abiVars, driverVars>>
exceptRegisterVars == <<coreVars, aliasVars, helperVars, enforceVars>>
exceptAliasVars == <<coreVars, registerVars, helperVars, enforceVars>>
exceptHelperVars == <<coreVars, registerVars, aliasVars, enforceVars>>
exceptEnforceVars == <<coreVars, registerVars, aliasVars, helperVars>>

(***************************************************************************)
(* Bounds of the model                                                     *)
(***************************************************************************)
\* number of registers (CSVs) a clobber set is drawn from
NumRegisters == 2
\* number of candidate function entry points (CFEPs)
NumCFEPs == 1
\* number of entry points where the getters are exercised
NumQueriedCFEPs == 2

Registers == 1..NumRegisters
CFEPs == 1..NumCFEPs
QueriedCFEPs == 1..NumQueriedCFEPs

(***************************************************************************)
(* model::RegisterState::Values                                            *)
(***************************************************************************)
Invalid == "Invalid"
No == "No"
NoOrDead == "NoOrDead"
Dead == "Dead"
Yes == "Yes"
YesOrDead == "YesOrDead"
Maybe == "Maybe"
Contradiction == "Contradiction"

RegisterState ==
    {Invalid, No, NoOrDead, Dead, Yes, YesOrDead, Maybe, Contradiction}

\* the seven values other than Invalid
ValidState == RegisterState \ {Invalid}

\* revng_abort(): the process is terminated, no value is returned
Abort == "revng_abort"

(***************************************************************************)
(* combine: one operator per inner switch, then the outer switch           *)
(***************************************************************************)
\* combineYes with Dead moved out of the Contradiction group
combineYes_DeadWins(R) ==
    CASE R \in {Yes, YesOrDead, Maybe} -> Yes
      [] R \in {No, NoOrDead, Contradiction} -> Contradiction
      [] R = Dead -> Dead
      [] R = Invalid -> Abort

\* combineYes with Dead moved to the Yes group
combineYes_DeadKeepsYes(R) ==
    CASE R \in {Yes, YesOrDead, Maybe, Dead} -> Yes
      [] R \in {No, NoOrDead, Contradiction} -> Contradiction
      [] R = Invalid -> Abort

\* case RegisterState::Yes
combineYes(R) ==
    CASE R \in {Yes, YesOrDead, Maybe} -> Yes
      [] R \in {No, NoOrDead, Dead, Contradiction} -> Contradiction
      [] R = Invalid -> Abort

\* combineYesOrDead with NoOrDead moved to the Contradiction group
combineYesOrDead_NoOrDeadContradicts(R) ==
    CASE R = Yes -> Yes
      [] R \in {Maybe, YesOrDead} -> YesOrDead
      [] R = Dead -> Dead
      [] R \in {No, NoOrDead, Contradiction} -> Contradiction
      [] R = Invalid -> Abort

\* case RegisterState::YesOrDead
combineYesOrDead(R) ==
    CASE R = Yes -> Yes
      [] R \in {Maybe, YesOrDead} -> YesOrDead
      [] R \in {Dead, NoOrDead} -> Dead
      [] R \in {No, Contradiction} -> Contradiction
      [] R = Invalid -> Abort

\* case RegisterState::No
combineNo(R) ==
    CASE R \in {No, NoOrDead, Maybe} -> No
      [] R \in {Yes, YesOrDead, Dead, Contradiction} -> Contradiction
      [] R = Invalid -> Abort

\* combineNoOrDead with YesOrDead moved to the NoOrDead group
combineNoOrDead_YesOrDeadKept(R) ==
    CASE R = No -> No
      [] R \in {Maybe, NoOrDead, YesOrDead} -> NoOrDead
      [] R = Dead -> Dead
      [] R \in {Yes, Contradiction} -> Contradiction
      [] R = Invalid -> Abort

\* case RegisterState::NoOrDead
combineNoOrDead(R) ==
    CASE R = No -> No
      [] R \in {Maybe, NoOrDead} -> NoOrDead
      [] R \in {Dead, YesOrDead} -> Dead
      [] R \in {Yes, Contradiction} -> Contradiction
      [] R = Invalid -> Abort

\* combineDead with YesOrDead moved to the Contradiction group
combineDead_YesOrDeadContradicts(R) ==
    CASE R \in {Dead, Maybe, NoOrDead} -> Dead
      [] R \in {No, Yes, YesOrDead, Contradiction} -> Contradiction
      [] R = Invalid -> Abort

\* case RegisterState::Dead
combineDead(R) ==
    CASE R \in {Dead, Maybe, NoOrDead, YesOrDead} -> Dead
      [] R \in {No, Yes, Contradiction} -> Contradiction
      [] R = Invalid -> Abort

\* combine whose Maybe case returns LH instead of RH
combine_MaybeReturnsLH(L, R) ==
    CASE L = Yes -> combineYes(R)
      [] L = YesOrDead -> combineYesOrDead(R)
      [] L = No -> combineNo(R)
      [] L = NoOrDead -> combineNoOrDead(R)
      [] L = Dead -> combineDead(R)
      [] L = Maybe -> L
      [] L = Contradiction -> Contradiction
      [] L = Invalid -> Abort

\* combine whose Contradiction case returns RH, like the Maybe case
combine_ContradictionReturnsRH(L, R) ==
    CASE L = Yes -> combineYes(R)
      [] L = YesOrDead -> combineYesOrDead(R)
      [] L = No -> combineNo(R)
      [] L = NoOrDead -> combineNoOrDead(R)
      [] L = Dead -> combineDead(R)
      [] L = Maybe -> R
      [] L = Contradiction -> R
      [] L = Invalid -> Abort

\* static RegisterState combine(RegisterState LH, RegisterState RH)
combine(L, R) ==
    CASE L = Yes -> combineYes(R)
      [] L = YesOrDead -> combineYesOrDead(R)
      [] L = No -> combineNo(R)
      [] L = NoOrDead -> combineNoOrDead(R)
      [] L = Dead -> combineDead(R)
      [] L = Maybe -> R
      [] L = Contradiction -> Contradiction
      [] L = Invalid -> Abort

\* combine(combine(A, B), C): the inner call runs first, and an abort in it
\* ends the process before the outer call
combineLeft(A, B, C) ==
    LET Inner == combine(A, B)
    IN IF Inner = Abort THEN Abort ELSE combine(Inner, C)

\* combine(A, combine(B, C))
combineRight(A, B, C) ==
    LET Inner == combine(B, C)
    IN IF Inner = Abort THEN Abort ELSE combine(A, Inner)

(***************************************************************************)
(* Calls of combine on the drawn operands                                  *)
(***************************************************************************)
Pending == "pending"

\* shouldEmit has not been called
NotEmitted == [Called |-> FALSE, Value |-> FALSE]

Calls == {"ab", "ba", "ab_c", "a_bc"}

\* the process is gone once a call has reached revng_abort
Aborted == \E c \in Calls : Result[c] = Abort

InitCombineVars ==
    /\ LH \in RegisterState
    /\ RH \in RegisterState
    /\ TH \in RegisterState
    /\ Result = [c \in Calls |-> Pending]
    /\ Emitted = NotEmitted

\* combine(LH, RH)
CombineLR ==
    /\ ~Aborted
    /\ Result["ab"] = Pending
    /\ Result' = [Result EXCEPT !["ab"] = combine(LH, RH)]
    /\ UNCHANGED <<LH, RH, TH, Emitted, oracleVars, abiVars, passVars>>

\* combine(RH, LH)
CombineRL ==
    /\ ~Aborted
    /\ Result["ba"] = Pending
    /\ Result' = [Result EXCEPT !["ba"] = combine(RH, LH)]
    /\ UNCHANGED <<LH, RH, TH, Emitted, oracleVars, abiVars, passVars>>

\* combine(combine(LH, RH), TH)
CombineLeftNested ==
    /\ ~Aborted
    /\ Result["ab_c"] = Pending
    /\ Result' = [Result EXCEPT !["ab_c"] = combineLeft(LH, RH, TH)]
    /\ UNCHANGED <<LH, RH, TH, Emitted, oracleVars, abiVars, passVars>>

\* combine(LH, combine(RH, TH))
CombineRightNested ==
    /\ ~Aborted
    /\ Result["a_bc"] = Pending
    /\ Result' = [Result EXCEPT !["a_bc"] = combineRight(LH, RH, TH)]
    /\ UNCHANGED <<LH, RH, TH, Emitted, oracleVars, abiVars, passVars>>

(***************************************************************************)
(* The consumer-side predicates of model::RegisterState                    *)
(***************************************************************************)
\* inline bool isYesOrDead(model::RegisterState::Values V)
isYesOrDead(V) == V = Yes \/ V = YesOrDead \/ V = Dead

\* inline bool shouldEmit(model::RegisterState::Values V)
shouldEmit(V) == isYesOrDead(V)

\* shouldEmit(LH)
ShouldEmit ==
    /\ ~Aborted
    /\ ~Emitted.Called
    /\ Emitted' = [Called |-> TRUE, Value |-> shouldEmit(LH)]
    /\ UNCHANGED <<LH, RH, TH, Result, oracleVars, abiVars, passVars>>

(***************************************************************************)
(* model::FunctionType::Values, in declaration order                       *)
(***************************************************************************)
FT_Invalid == 0
FT_Regular == 1
FT_NoReturn == 2
FT_Fake == 3

\* the types a computed summary carries
SummaryTypes == {FT_Regular, FT_NoReturn, FT_Fake}

\* struct FunctionSummary, the fields compare reads
FunctionSummary == [Type : SummaryTypes, ClobberedRegisters : SUBSET Registers]

\* ElectedFSO when the optional is empty, FakeFunction when it is null
NoFSO == -1
NullFunction == "nullptr"

\* struct FunctionSummary with the fields the getters return; the offsets and
\* the functions are a sample, the clobber set is empty or every register
FullSummary ==
    [Type : SummaryTypes,
     ClobberedRegisters : {{}, Registers},
     ElectedFSO : {NoFSO, 8},
     FakeFunction : {NullFunction, "fake_function"}]

\* the summaries FunctionAnalysisResults is constructed with
DefaultSummaries ==
    {[Type |-> FT_Regular, ClobberedRegisters |-> Registers,
      ElectedFSO |-> 8, FakeFunction |-> NullFunction],
     [Type |-> FT_Fake, ClobberedRegisters |-> {},
      ElectedFSO |-> NoFSO, FakeFunction |-> "fake_function"]}

\* std::includes that asks for a proper inclusion
includes_Proper(A, B) == B \subseteq A /\ B # A

\* std::includes(A.begin(), A.end(), B.begin(), B.end()) on two std::set:
\* every element of B is in A
includes(A, B) == B \subseteq A

\* compare with the order of the two types flipped
compare_TypeOrderFlipped(Old, New) ==
    IF New.Type = Old.Type
    THEN includes(Old.ClobberedRegisters, New.ClobberedRegisters)
    ELSE New.Type >= Old.Type

\* static bool FunctionSummary::compare(Old, New)
compare(Old, New) ==
    IF New.Type = Old.Type
    THEN includes(Old.ClobberedRegisters, New.ClobberedRegisters)
    ELSE New.Type <= Old.Type

(***************************************************************************)
(* FunctionAnalysisResults                                                 *)
(***************************************************************************)
NoCall == [BB |-> 0]
NoQuery == [BB |-> 0]

InitOracleVars ==
    /\ FunctionsBucket = <<>>
    /\ DefaultSummary \in DefaultSummaries
    /\ Last = NoCall
    /\ Got = NoQuery

\* FunctionsBucket.find(BB) != FunctionsBucket.end()
Registered(BB) == BB \in DOMAIN FunctionsBucket

\* registerFunction(BB, F) that assigns F to every entry of the map
bucketAfterRegister_EveryEntry(BB, F) ==
    [b \in DOMAIN FunctionsBucket \cup {BB} |-> F]

\* the map after registerFunction(BB, F): move-assignment over an existing
\* entry, try_emplace otherwise
bucketAfterRegister(BB, F) ==
    IF Registered(BB)
    THEN [FunctionsBucket EXCEPT ![BB] = F]
    ELSE [b \in DOMAIN FunctionsBucket \cup {BB} |->
             IF b = BB THEN F ELSE FunctionsBucket[b]]

\* registerFunction returning the result of compare without negating it
registerReturns_NotNegated(BB, F) ==
    IF Registered(BB)
    THEN compare(FunctionsBucket[BB], F)
    ELSE TRUE

\* the value registerFunction(BB, F) returns
registerReturns(BB, F) ==
    IF Registered(BB)
    THEN LET Changed == compare(FunctionsBucket[BB], F)
         IN ~Changed
    ELSE TRUE

\* bool registerFunction(llvm::BasicBlock *BB, FunctionSummary &&F)
registerFunction(BB, F) ==
    /\ FunctionsBucket' = bucketAfterRegister(BB, F)
    /\ Got' = NoQuery
    /\ UNCHANGED <<combineVars, abiVars, passVars, DefaultSummary>>

\* what the caller of registerFunction(BB, F) sees: the entry it replaced,
\* the candidate and the value returned
lastCall(BB, F) ==
    [BB |-> BB,
     HadOld |-> Registered(BB),
     Old |-> IF Registered(BB) THEN FunctionsBucket[BB] ELSE F,
     New |-> F,
     Ret |-> registerReturns(BB, F)]

RegisterFunction ==
    \E BB \in CFEPs, F \in FunctionSummary :
        /\ registerFunction(BB, F)
        /\ Last' = lastCall(BB, F)

\* get that never looks at the bucket
get_IgnoresBucket(BB) == DefaultSummary

\* const FunctionSummary &get(llvm::BasicBlock *BB) const
get(BB) == IF Registered(BB) THEN FunctionsBucket[BB] ELSE DefaultSummary

getFunctionType(BB) == get(BB).Type
isFakeFunction(BB) == getFunctionType(BB) = FT_Fake
getFakeFunction(BB) == get(BB).FakeFunction
getRegistersClobbered(BB) == get(BB).ClobberedRegisters
getElectedFSO(BB) == get(BB).ElectedFSO

\* registerFunction on one of the queried entry points, with a full summary
RegisterSummary ==
    \E BB \in QueriedCFEPs, F \in FullSummary :
        /\ registerFunction(BB, F)
        /\ UNCHANGED Last

\* the five getters called for one entry point
Query ==
    \E BB \in QueriedCFEPs :
        /\ Got' = [BB |-> BB,
                   Type |-> getFunctionType(BB),
                   IsFake |-> isFakeFunction(BB),
                   FakeFunction |-> getFakeFunction(BB),
                   Clobbered |-> getRegistersClobbered(BB),
                   ElectedFSO |-> getElectedFSO(BB)]
        /\ UNCHANGED <<combineVars, abiVars, passVars, FunctionsBucket, DefaultSummary, Last>>

(***************************************************************************)
(* analyzeOutlinedFunction                                                 *)
(***************************************************************************)
\* a RegisterStateMap with no entry
EmptyMap == <<>>

\* the RegisterStateMaps over the registers, with values in V
RegisterMaps(V) == UNION {[D -> V] : D \in SUBSET Registers}

\* a block of the outlined function that matters to the loop over the
\* instructions: a call-site block (a call to CallSiteHook with argument PC)
\* or a block ending in a return.  BB is the rank of the block's address among
\* the blocks, the maps are what the analyses return for the block.
callBlock(pc, bb, ra, ur, dr) ==
    [Kind |-> "call", PC |-> pc, BB |-> bb,
     RAOFC |-> ra, URVOFC |-> ur, DRVOFC |-> dr, URVOF |-> EmptyMap]

retBlock(bb, m) ==
    [Kind |-> "ret", PC |-> 0, BB |-> bb,
     RAOFC |-> EmptyMap, URVOFC |-> EmptyMap, DRVOFC |-> EmptyMap, URVOF |-> m]

\* PartialAnalysisResults Results, default-constructed
EmptyResults ==
    [UAOF |-> EmptyMap, DRAOF |-> EmptyMap,
     URVOFC |-> <<>>, RAOFC |-> <<>>, DRVOFC |-> <<>>,
     URVOF |-> EmptyMap]

\* ABIAnalysesResults::CallSiteResults, default-constructed
EmptySite == [Arguments |-> EmptyMap, ReturnValues |-> EmptyMap]

\* ABIAnalysesResults FinalResults, default-constructed
EmptyFinalResults ==
    [Arguments |-> EmptyMap, CallSites |-> <<>>, ReturnValues |-> EmptyMap]

IdleABIVars ==
    /\ Fn = [UAOF |-> EmptyMap, DRAOF |-> EmptyMap, Blocks |-> <<>>]
    /\ Results = EmptyResults
    /\ FinalResults = EmptyFinalResults
    /\ apc = [Phase |-> "entry", I |-> 1, Keys |-> {}]
    /\ Contradicted = {}

\* M[K] = V on a std::map or a DenseMap
mapSet(M, K, V) == [k \in DOMAIN M \cup {K} |-> IF k = K THEN V ELSE M[k]]

\* M[r] = W[r] for every entry of W
mapSetAll(M, W) ==
    [r \in DOMAIN M \cup DOMAIN W |-> IF r \in DOMAIN W THEN W[r] ELSE M[r]]

\* the order of std::pair<MetaAddress, BasicBlock *>, the key of the three
\* per-call-site maps
keyLeq(A, B) == A[1] < B[1] \/ (A[1] = B[1] /\ A[2] <= B[2])

\* the first key of K in iteration order
firstKey(K) == CHOOSE k \in K : \A j \in K : keyLeq(k, j)

\* zipmap_range(L, R): one entry per key of either map, with the side that
\* lacks the key null
zipmap_range(L, R) ==
    {[CSV |-> r, Left |-> r \in DOMAIN L, Right |-> r \in DOMAIN R] :
        r \in DOMAIN L \cup DOMAIN R}

\* the body of the two zipmap loops: combine(LV, RV), a null side being Maybe
zipValue(E, L, R) ==
    LET LV == IF E.Left THEN L[E.CSV] ELSE Maybe
        RV == IF E.Right THEN R[E.CSV] ELSE Maybe
    IN combine(LV, RV)

\* the values one zipmap loop writes, by register
zipCombine(L, R) ==
    [r \in {E.CSV : E \in zipmap_range(L, R)} |->
        zipValue([CSV |-> r, Left |-> r \in DOMAIN L, Right |-> r \in DOMAIN R],
                 L, R)]

\* one of the calls of combine in the loop reaches revng_abort
zipAborts(L, R) == \E r \in DOMAIN zipCombine(L, R) : zipCombine(L, R)[r] = Abort

\* the zipmap loop over UAOF and DRAOF that visits the keys of UAOF only
argumentsOf_LeftKeysOnly(P) ==
    [r \in DOMAIN P.UAOF |-> zipCombine(P.UAOF, P.DRAOF)[r]]

\* "Finalize results. Combine UAOF and DRAOF.": FinalResults.Arguments
argumentsOf(P) == zipCombine(P.UAOF, P.DRAOF)

\* CallSites[PC], created empty if absent
siteOf(CS, PC) == IF PC \in DOMAIN CS THEN CS[PC] ELSE EmptySite

\* "Add RAOFC.", for one key: CallSites[PC].Arguments[CSV] = RS for every
\* entry of RAOFC[Key]; no entry, no CallSites[PC]
callSitesAfterRAOFC(CS, Key, M) ==
    IF DOMAIN M = {}
    THEN CS
    ELSE mapSet(CS, Key[1],
                [siteOf(CS, Key[1]) EXCEPT
                    !.Arguments = mapSetAll(@, M)])

\* "Combine URVOFC and DRVOFC.", for one key
callSitesAfterRV(CS, Key, U, D) ==
    IF DOMAIN zipCombine(U, D) = {}
    THEN CS
    ELSE mapSet(CS, Key[1],
                [siteOf(CS, Key[1]) EXCEPT
                    !.ReturnValues = mapSetAll(@, zipCombine(U, D))])

\* the copy of URVOF that leaves out the registers that are Maybe
returnValuesOf_DropsMaybe(P) ==
    [r \in {x \in DOMAIN P.URVOF : P.URVOF[x] # Maybe} |-> P.URVOF[r]]

\* "Add URVOF.": FinalResults.ReturnValues
returnValuesOf(P) == P.URVOF

\* the places of W where a Contradiction is written
contradictions(Where, PC, W) ==
    {<<Where, PC, r>> : r \in {x \in DOMAIN W : W[x] = Contradiction}}

\* the phase after the one that handled the keys K of a per-call-site loop
afterKeys(K, Loop, Then) ==
    IF K = {}
    THEN [Phase |-> Then, I |-> apc.I, Keys |-> {}]
    ELSE [Phase |-> Loop, I |-> apc.I, Keys |-> K]

\* "Initial population of partial results.": the two analyses of the entry block
AnalyzeEntry ==
    /\ apc.Phase = "entry"
    /\ Results' = [Results EXCEPT !.UAOF = Fn.UAOF, !.DRAOF = Fn.DRAOF]
    /\ apc' = [apc EXCEPT !.Phase = "scan", !.I = 1]
    /\ UNCHANGED <<Fn, FinalResults, Contradicted, combineVars, oracleVars, passVars>>

\* for (auto &I : instructions(F)): a call to CallSiteHook
ScanCallSite ==
    /\ apc.Phase = "scan"
    /\ apc.I <= Len(Fn.Blocks)
    /\ Fn.Blocks[apc.I].Kind = "call"
    /\ LET B == Fn.Blocks[apc.I]
           Key == <<B.PC, B.BB>>
       IN Results' = [Results EXCEPT
                         !.URVOFC = mapSet(@, Key, B.URVOFC),
                         !.RAOFC = mapSet(@, Key, B.RAOFC),
                         !.DRVOFC = mapSet(@, Key, B.DRVOFC)]
    /\ apc' = [apc EXCEPT !.I = @ + 1]
    /\ UNCHANGED <<Fn, FinalResults, Contradicted, combineVars, oracleVars, passVars>>

\* the scan of a ReturnInst that keeps the entries of the earlier returns
ScanReturn_KeepsEarlier ==
    /\ apc.Phase = "scan"
    /\ apc.I <= Len(Fn.Blocks)
    /\ Fn.Blocks[apc.I].Kind = "ret"
    /\ Results' = [Results EXCEPT !.URVOF = mapSetAll(Fn.Blocks[apc.I].URVOF, @)]
    /\ apc' = [apc EXCEPT !.I = @ + 1]
    /\ UNCHANGED <<Fn, FinalResults, Contradicted, combineVars, oracleVars, passVars>>

\* for (auto &I : instructions(F)): a ReturnInst
ScanReturn ==
    /\ apc.Phase = "scan"
    /\ apc.I <= Len(Fn.Blocks)
    /\ Fn.Blocks[apc.I].Kind = "ret"
    /\ Results' = [Results EXCEPT !.URVOF = Fn.Blocks[apc.I].URVOF]
    /\ apc' = [apc EXCEPT !.I = @ + 1]
    /\ UNCHANGED <<Fn, FinalResults, Contradicted, combineVars, oracleVars, passVars>>

\* the loop over zipmap_range(Results.UAOF, Results.DRAOF)
FinalizeArguments ==
    /\ apc.Phase = "scan"
    /\ apc.I > Len(Fn.Blocks)
    /\ IF zipAborts(Results.UAOF, Results.DRAOF)
       THEN /\ apc' = [apc EXCEPT !.Phase = "aborted"]
            /\ UNCHANGED <<FinalResults, Contradicted>>
       ELSE /\ FinalResults' = [FinalResults EXCEPT !.Arguments = argumentsOf(Results)]
            /\ Contradicted' = Contradicted
                                 \cup contradictions("Arguments", 0, argumentsOf(Results))
            /\ apc' = afterKeys(DOMAIN Results.RAOFC, "raofc",
                                IF DOMAIN Results.URVOFC = {} THEN "urvof" ELSE "rv")
    /\ UNCHANGED <<Fn, Results, combineVars, oracleVars, passVars>>

\* one iteration of for (auto Map : Results.RAOFC)
AddRAOFC ==
    /\ apc.Phase = "raofc"
    /\ LET Key == firstKey(apc.Keys)
           M == Results.RAOFC[Key]
       IN /\ FinalResults' = [FinalResults EXCEPT
                                 !.CallSites = callSitesAfterRAOFC(@, Key, M)]
          /\ Contradicted' = Contradicted
                               \cup contradictions("SiteArguments", Key[1], M)
          /\ apc' = IF apc.Keys = {Key}
                    THEN afterKeys(DOMAIN Results.URVOFC, "rv", "urvof")
                    ELSE [apc EXCEPT !.Keys = @ \ {Key}]
    /\ UNCHANGED <<Fn, Results, combineVars, oracleVars, passVars>>

\* one iteration of for (auto Map : Results.URVOFC)
CombineReturnValues ==
    /\ apc.Phase = "rv"
    /\ LET Key == firstKey(apc.Keys)
           U == Results.URVOFC[Key]
           D == Results.DRVOFC[Key]
       IN IF zipAborts(U, D)
          THEN /\ apc' = [apc EXCEPT !.Phase = "aborted"]
               /\ UNCHANGED <<FinalResults, Contradicted>>
          ELSE /\ FinalResults' = [FinalResults EXCEPT
                                      !.CallSites = callSitesAfterRV(@, Key, U, D)]
               /\ Contradicted' = Contradicted
                                    \cup contradictions("SiteReturnValues", Key[1],
                                                        zipCombine(U, D))
               /\ apc' = afterKeys(apc.Keys \ {Key}, "rv", "urvof")
    /\ UNCHANGED <<Fn, Results, combineVars, oracleVars, passVars>>

\* FinalResults.ReturnValues = Results.URVOF; return FinalResults;
AddURVOF ==
    /\ apc.Phase = "urvof"
    /\ FinalResults' = [FinalResults EXCEPT !.ReturnValues = returnValuesOf(Results)]
    /\ apc' = [apc EXCEPT !.Phase = "done"]
    /\ UNCHANGED <<Fn, Results, Contradicted, combineVars, oracleVars, passVars>>

NextABI ==
    \/ AnalyzeEntry
    \/ ScanCallSite
    \/ ScanReturn
    \/ FinalizeArguments
    \/ AddRAOFC
    \/ CombineReturnValues
    \/ AddURVOF

StartABIVars ==
    /\ Results = EmptyResults
    /\ FinalResults = EmptyFinalResults
    /\ apc = [Phase |-> "entry", I |-> 1, Keys |-> {}]
    /\ Contradicted = {}

(***************************************************************************)
(* model::Register: names                                                  *)
(***************************************************************************)
\* ScalarEnumerationTraits<model::Register::Values>: the scalar of each
\* enumerator, in the order of the enumerators; enumerator V is at V + 1
EnumCases ==
    <<
      "Invalid", "eax_x86", "ebx_x86", "ecx_x86", "edx_x86",
      "esi_x86", "edi_x86", "ebp_x86", "esp_x86", "rax_x86_64",
      "rbx_x86_64", "rcx_x86_64", "rdx_x86_64", "rbp_x86_64", "rsp_x86_64",
      "rsi_x86_64", "rdi_x86_64", "r8_x86_64", "r9_x86_64", "r10_x86_64",
      "r11_x86_64", "r12_x86_64", "r13_x86_64", "r14_x86_64", "r15_x86_64",
      "xmm0_x86_64", "xmm1_x86_64", "xmm2_x86_64", "xmm3_x86_64", "xmm4_x86_64",
      "xmm5_x86_64", "xmm6_x86_64", "xmm7_x86_64", "r0_arm", "r1_arm",
      "r2_arm", "r3_arm", "r4_arm", "r5_arm", "r6_arm",
      "r7_arm", "r8_arm", "r9_arm", "r10_arm", "r11_arm",
      "r12_arm", "r13_arm", "r14_arm", "x0_aarch64", "x1_aarch64",
      "x2_aarch64", "x3_aarch64", "x4_aarch64", "x5_aarch64", "x6_aarch64",
      "x7_aarch64", "x8_aarch64", "x9_aarch64", "x10_aarch64", "x11_aarch64",
      "x12_aarch64", "x13_aarch64", "x14_aarch64", "x15_aarch64", "x16_aarch64",
      "x17_aarch64", "x18_aarch64", "x19_aarch64", "x20_aarch64", "x21_aarch64",
      "x22_aarch64", "x23_aarch64", "x24_aarch64", "x25_aarch64", "x26_aarch64",
      "x27_aarch64", "x28_aarch64", "x29_aarch64", "lr_aarch64", "sp_aarch64",
      "v0_mips", "v1_mips", "a0_mips", "a1_mips", "a2_mips",
      "a3_mips", "s0_mips", "s1_mips", "s2_mips", "s3_mips",
      "s4_mips", "s5_mips", "s6_mips", "s7_mips", "gp_mips",
      "sp_mips", "fp_mips", "ra_mips", "r0_systemz", "r1_systemz",
      "r2_systemz", "r3_systemz", "r4_systemz", "r5_systemz", "r6_systemz",
      "r7_systemz", "r8_systemz", "r9_systemz", "r10_systemz", "r11_systemz",
      "r12_systemz", "r13_systemz", "r14_systemz", "r15_systemz", "f0_systemz",
      "f1_systemz", "f2_systemz", "f3_systemz", "f4_systemz", "f5_systemz",
      "f6_systemz", "f7_systemz", "f8_systemz", "f9_systemz", "f10_systemz",
      "f11_systemz", "f12_systemz", "f13_systemz", "f14_systemz", "f15_systemz"
    >>

\* enum Values, by ordinal
RegisterValues == 0..(Len(EnumCases) - 1)

\* model::Register::Invalid
Register_Invalid == 0

\* getNameFromYAMLEnumScalar: the scalar of the enumCase whose value is V
getNameFromYAMLEnumScalar(V) == EnumCases[V + 1]

\* getValueFromYAMLScalar: the value of the enumCase whose scalar is Name,
\* getInvalidValueFromYAMLScalar() if there is none
getValueFromYAMLScalar(Name) ==
    IF \E i \in DOMAIN EnumCases : EnumCases[i] = Name
    THEN (CHOOSE i \in DOMAIN EnumCases : EnumCases[i] = Name) - 1
    ELSE Register_Invalid

getName(V) == getNameFromYAMLEnumScalar(V)

fromName(Name) == getValueFromYAMLScalar(Name)

\* sizeof of a string literal: its length and the terminator
sizeof(Literal) == Len(Literal) + 1

\* FullName.substr(0, N)
substr0(FullName, N) == SubSeq(FullName, 1, N)

\* the suffix literal of the case group of V in the switch of getRegisterName
caseGroup(V) ==
    IF V \in (fromName("eax_x86"))..(fromName("esp_x86")) THEN "_x86"
    ELSE IF V \in (fromName("rax_x86_64"))..(fromName("xmm7_x86_64")) THEN "_x86_64"
    ELSE IF V \in (fromName("r0_arm"))..(fromName("r14_arm")) THEN "_arm"
    ELSE IF V \in (fromName("x0_aarch64"))..(fromName("sp_aarch64")) THEN "_aarch64"
    ELSE IF V \in (fromName("v0_mips"))..(fromName("ra_mips")) THEN "_mips"
    ELSE "_systemz"

\* getRegisterName with the terminator left out of the subtraction
getRegisterName_StripsOneMore(V) ==
    IF V = Register_Invalid
    THEN Abort
    ELSE substr0(getName(V), Len(getName(V)) - sizeof(caseGroup(V)))

\* inline llvm::StringRef getRegisterName(Values V)
getRegisterName(V) ==
    IF V = Register_Invalid
    THEN Abort
    ELSE substr0(getName(V), Len(getName(V)) - sizeof(caseGroup(V)) + 1)

\* the architectures fromRegisterName has a case for, with the suffix it appends
ArchSuffix ==
    [x86 |-> "_x86", x86_64 |-> "_x86_64", arm |-> "_arm", aarch64 |-> "_aarch64",
     mips |-> "_mips", mipsel |-> "_mips", systemz |-> "_systemz"]

\* llvm::Triple::ArchType: the architectures with a case and some without
ArchTypes == DOMAIN ArchSuffix \cup {"UnknownArch", "armeb", "mips64", "ppc", "riscv64"}

\* inline Values fromRegisterName(llvm::StringRef Name, llvm::Triple::ArchType Arch)
fromRegisterName(Name, Arch) ==
    IF Arch \in DOMAIN ArchSuffix
    THEN getValueFromYAMLScalar(Name \o ArchSuffix[Arch])
    ELSE Register_Invalid

NotParsed == [Called |-> FALSE, Value |-> Register_Invalid]

IdleRegisterVars ==
    /\ RegV = Register_Invalid
    /\ RegArch = "UnknownArch"
    /\ RegName = Pending
    /\ RegParsed = NotParsed

InitRegisterVars ==
    /\ RegV \in RegisterValues
    /\ RegArch \in ArchTypes
    /\ RegName = Pending
    /\ RegParsed = NotParsed

GetRegisterName ==
    /\ RegName = Pending
    /\ RegName' = getRegisterName(RegV)
    /\ UNCHANGED <<RegV, RegArch, RegParsed, exceptRegisterVars>>

FromRegisterName ==
    /\ RegName \notin {Pending, Abort}
    /\ ~RegParsed.Called
    /\ RegParsed' = [Called |-> TRUE, Value |-> fromRegisterName(RegName, RegArch)]
    /\ UNCHANGED <<RegV, RegArch, RegName, exceptRegisterVars>>

(***************************************************************************)
(* CSVAliasAnalysisPass                                                    *)
(***************************************************************************)
\* how many times the pass runs
MaxRuns == 2

\* GCBI->csvs() followed by the pcCSVs() of the program counter handler
CSVs == Registers

\* a pointer operand that is not a CSV
NonCSV == 0

\* the scope MDB.createAliasScope(Name, AliasDomain) creates: a new node each
\* time, of a domain that is new in each initializeAliasInfo
createAliasScope(Name, AliasDomain) == [Name |-> Name, Domain |-> AliasDomain]

\* a null MDNode *
NullMD == <<>>

\* MDNode::concatenate(A, B): the operands of A, then those of B not in A
concatenate(A, B) ==
    A \o SelectSeq(B, LAMBDA x : \A i \in DOMAIN A : A[i] # x)

\* "Build alias scopes", for the CSVs in order: AliasScope and AliasSet
scopesBuilt(AliasDomain) ==
    [c \in CSVs |->
        [AliasScope |-> createAliasScope(c, AliasDomain),
         AliasSet |-> <<createAliasScope(c, AliasDomain)>>,
         NoAliasSet |-> NullMD]]

\* AllCSVScopes after the push_back of every scope built
allScopesAfter(All, AliasDomain) ==
    All \o [i \in 1..Cardinality(CSVs) |-> createAliasScope(i, AliasDomain)]

\* the scopes of the entries of Map, in the order of the map
scopesOf(Map) == [i \in 1..Cardinality(DOMAIN Map) |-> Map[i].AliasScope]

\* OtherCSVScopes for CSV without the test Q.first != CSV
otherCSVScopes_WithOwn(Map, CSV) == scopesOf(Map)

\* OtherCSVScopes for CSV: the scope of every entry of the map but CSV's
otherCSVScopes(Map, CSV) ==
    SelectSeq(scopesOf(Map), LAMBDA x : x # Map[CSV].AliasScope)

\* "Build noalias sets"
noAliasBuilt(Map) ==
    [c \in DOMAIN Map |-> [Map[c] EXCEPT !.NoAliasSet = otherCSVScopes(Map, c)]]

\* an instruction of a function that the pass has not seen
instruction(Op, Ptr) ==
    [Op |-> Op, Ptr |-> Ptr, alias_scope |-> NullMD, noalias |-> NullMD]

Instructions ==
    {instruction(op, ptr) : op \in {"load", "store"}, ptr \in CSVs \cup {NonCSV}}
    \cup {instruction("other", NonCSV)}

\* the functions the pass runs on
AliasFunctions ==
    {<<>>} \cup {<<x>> : x \in Instructions}
           \cup {<<x, y>> : x \in Instructions, y \in Instructions}

IdleAliasVars ==
    /\ CSVAliasInfoMap = <<>>
    /\ AllCSVScopes = <<>>
    /\ AliasRuns = 0
    /\ AliasF = <<>>
    /\ aliasPC = [Phase |-> "idle", I |-> 1]

\* run(F, FAM) up to the loop over the instructions: initializeAliasInfo(M)
InitializeAliasInfo ==
    /\ aliasPC.Phase = "idle"
    /\ AliasRuns < MaxRuns
    /\ AliasRuns' = AliasRuns + 1
    /\ \E F \in AliasFunctions : AliasF' = F
    /\ CSVAliasInfoMap' = noAliasBuilt(mapSetAll(CSVAliasInfoMap,
                                                 scopesBuilt(AliasRuns')))
    /\ AllCSVScopes' = allScopesAfter(AllCSVScopes, AliasRuns')
    /\ aliasPC' = [Phase |-> "decorate", I |-> 1]
    /\ UNCHANGED exceptAliasVars

\* the instruction under decorateMemoryAccesses
CurrentI == AliasF[aliasPC.I]

Decorating == aliasPC.Phase = "decorate" /\ aliasPC.I <= Len(AliasF)

\* decorateMemoryAccesses: neither a load nor a store
DecorateOther ==
    /\ Decorating
    /\ CurrentI.Op \notin {"load", "store"}
    /\ aliasPC' = [aliasPC EXCEPT !.I = @ + 1]
    /\ UNCHANGED <<CSVAliasInfoMap, AllCSVScopes, AliasRuns, AliasF, exceptAliasVars>>

\* decorateMemoryAccesses: a load or a store of a CSV of the map
DecorateCSVAccess ==
    /\ Decorating
    /\ CurrentI.Op \in {"load", "store"}
    /\ CurrentI.Ptr \in DOMAIN CSVAliasInfoMap
    /\ AliasF' = [AliasF EXCEPT
                     ![aliasPC.I].alias_scope =
                         concatenate(@, CSVAliasInfoMap[CurrentI.Ptr].AliasSet),
                     ![aliasPC.I].noalias =
                         concatenate(@, CSVAliasInfoMap[CurrentI.Ptr].NoAliasSet)]
    /\ aliasPC' = [aliasPC EXCEPT !.I = @ + 1]
    /\ UNCHANGED <<CSVAliasInfoMap, AllCSVScopes, AliasRuns, exceptAliasVars>>

\* decorateMemoryAccesses: a load or a store of anything else
DecorateMemoryAccess ==
    /\ Decorating
    /\ CurrentI.Op \in {"load", "store"}
    /\ CurrentI.Ptr \notin DOMAIN CSVAliasInfoMap
    /\ AliasF' = [AliasF EXCEPT
                     ![aliasPC.I].noalias = concatenate(@, AllCSVScopes)]
    /\ aliasPC' = [aliasPC EXCEPT !.I = @ + 1]
    /\ UNCHANGED <<CSVAliasInfoMap, AllCSVScopes, AliasRuns, exceptAliasVars>>

\* return PreservedAnalyses::none();
AliasRunReturns ==
    /\ aliasPC.Phase = "decorate"
    /\ aliasPC.I > Len(AliasF)
    /\ aliasPC' = [Phase |-> "idle", I |-> 1]
    /\ UNCHANGED <<CSVAliasInfoMap, AllCSVScopes, AliasRuns, AliasF, exceptAliasVars>>

NextAlias ==
    \/ InitializeAliasInfo
    \/ DecorateOther
    \/ DecorateCSVAccess
    \/ DecorateMemoryAccess
    \/ AliasRunReturns

(***************************************************************************)
(* RemoveHelperCallsPass                                                   *)
(***************************************************************************)
\* no value: the operand of an instruction that uses none, the pointer of an
\* instruction that is not a store
NoValue == 0

\* an instruction: Written is what getCSVUsedByHelperCall gives for a call to
\* a helper, Operand the instruction whose value it uses
helperCall(Id, Written) ==
    [Id |-> Id, Kind |-> "helper", Written |-> Written,
     Operand |-> NoValue, Ptr |-> NoValue]

otherInstruction(Id, Operand) ==
    [Id |-> Id, Kind |-> "other", Written |-> {},
     Operand |-> Operand, Ptr |-> NoValue]

\* Builder.CreateCall(Marker) for one of the two pools
markerCall(Id, Name) ==
    [Id |-> Id, Kind |-> Name, Written |-> {},
     Operand |-> NoValue, Ptr |-> NoValue]

\* Builder.CreateStore(Value, CSV)
storeTo(Id, Value, CSV) ==
    [Id |-> Id, Kind |-> "store", Written |-> {},
     Operand |-> Value, Ptr |-> CSV]

\* the instruction at position i of a function: a call to a helper, or
\* something else that may use the value of an earlier instruction
InstructionsAt(i) ==
    {helperCall(i, W) : W \in SUBSET CSVs}
    \cup {otherInstruction(i, o) : o \in 0..(i - 1)}

\* the functions the pass runs on
HelperFunctions ==
    {<<>>}
    \cup {<<x>> : x \in InstructionsAt(1)}
    \cup {<<x, y>> : x \in InstructionsAt(1), y \in InstructionsAt(2)}
    \cup {<<x, y, z>> : x \in InstructionsAt(1), y \in InstructionsAt(2),
                        z \in InstructionsAt(3)}

\* isCallToHelper(&I): the calls to the two markers are not calls to helpers
isCallToHelper(I) == I.Kind = "helper"

\* the CSVs of a set, in the order the loop over UsedCSVs visits them
inOrder(W) == SelectSeq([c \in 1..Cardinality(CSVs) |-> c], LAMBDA c : c \in W)

\* the call to regs_clobbered_helper and the store for the k-th CSV of a
\* list, the new instructions taking their Ids from First on
clobberStores(UsedCSVs, First) ==
    [n \in 1..(2 * Len(UsedCSVs)) |->
        IF n % 2 = 1
        THEN markerCall(First + n - 1, "regs_clobbered_helper")
        ELSE storeTo(First + n - 1, First + n - 2, UsedCSVs[n \div 2])]

\* what one iteration of the loop over ToReplace inserts that stores to every
\* CSV
inserted_StoresEveryCSV(I, First) ==
    <<markerCall(First, "original_helper")>>
        \o clobberStores(inOrder(CSVs), First + 1)

\* what one iteration of the loop over ToReplace inserts before I
inserted(I, First) ==
    <<markerCall(First, "original_helper")>>
        \o clobberStores(inOrder(I.Written), First + 1)

\* I->replaceAllUsesWith(NewHelper)
replaceAllUsesWith(F, I, NewHelper) ==
    [n \in DOMAIN F |->
        IF F[n].Operand = I.Id THEN [F[n] EXCEPT !.Operand = NewHelper.Id]
        ELSE F[n]]

\* the position of instruction I in F
positionOf(F, I) == CHOOSE n \in DOMAIN F : F[n].Id = I.Id

\* F with New inserted before I and I erased
insertedAndErased(F, I, New) ==
    SubSeq(F, 1, positionOf(F, I) - 1) \o New
        \o SubSeq(F, positionOf(F, I) + 1, Len(F))

IdleHelperVars ==
    /\ HelperIn = <<>>
    /\ HelperF = <<>>
    /\ ToReplace = <<>>
    /\ helperPC = [Phase |-> "start", NextId |-> 1]

InitHelperVars ==
    /\ HelperIn \in HelperFunctions
    /\ HelperF = HelperIn
    /\ ToReplace = <<>>
    /\ helperPC = [Phase |-> "start", NextId |-> Len(HelperIn) + 1]

\* the loop that fills ToReplace, and the return when it stays empty
CollectHelperCalls ==
    /\ helperPC.Phase = "start"
    /\ ToReplace' = SelectSeq(HelperF, isCallToHelper)
    /\ helperPC' = [helperPC EXCEPT
                       !.Phase = IF ToReplace' = <<>> THEN "all" ELSE "replace"]
    /\ UNCHANGED <<HelperIn, HelperF, exceptHelperVars>>

\* one iteration of for (auto *I : ToReplace)
ReplaceHelperCall ==
    /\ helperPC.Phase = "replace"
    /\ ToReplace # <<>>
    /\ LET I == Head(ToReplace)
           New == inserted(I, helperPC.NextId)
       IN /\ HelperF' = replaceAllUsesWith(insertedAndErased(HelperF, I, New),
                                           I, New[1])
          /\ helperPC' = [helperPC EXCEPT !.NextId = @ + Len(New)]
    /\ ToReplace' = Tail(ToReplace)
    /\ UNCHANGED <<HelperIn, exceptHelperVars>>

\* return PreservedAnalyses::none();
HelperRunReturns ==
    /\ helperPC.Phase = "replace"
    /\ ToReplace = <<>>
    /\ helperPC' = [helperPC EXCEPT !.Phase = "none"]
    /\ UNCHANGED <<HelperIn, HelperF, ToReplace, exceptHelperVars>>

NextHelper ==
    \/ CollectHelperCalls
    \/ ReplaceHelperCall
    \/ HelperRunReturns

(***************************************************************************)
(* EnforceABI                                                              *)
(***************************************************************************)
\* Binary.Functions, in the order of the loop over them
FunctionNames == <<"f", "g">>

\* no function type: what a function that is not from a pool is given here
NoType == [Arguments |-> <<>>, ReturnValues |-> <<>>]

\* an llvm::Function of the module
oldFunction(Name) == [Name |-> Name, Kind |-> "old", Type |-> NoType]

\* M.getFunction("function_dispatcher")
FunctionDispatcher ==
    [Name |-> "function_dispatcher", Kind |-> "dispatcher", Type |-> NoType]

\* no function operand
NoFunction == [Name |-> "", Kind |-> "none", Type |-> NoType]

\* handleFunction: the new function takes the name of the old one
handleFunction(OldFunction) == [OldFunction EXCEPT !.Kind = "new"]

\* toLLVMType(&M, Prototype): the types of the argument CSVs and of the
\* return value CSVs
toLLVMType(Prototype) ==
    [Arguments |-> Prototype.Arguments, ReturnValues |-> Prototype.ReturnValues]

\* IndirectPlaceholderPool.get(NewType, NewType, "indirect_placeholder")
indirectPlaceholder(NewType) ==
    [Name |-> "indirect_placeholder", Kind |-> "opaque", Type |-> NewType]

\* the prototypes of the call sites: argument and return value registers
Prototypes ==
    [Arguments : {<<>>, <<1>>}, ReturnValues : {<<>>, <<NumRegisters>>}]

\* the call instructions: the function they are in, the called operand, a
\* function among the other operands if any, and the prototype the model
\* has for the call site
ModuleCalls ==
    [Caller : {FunctionNames[i] : i \in DOMAIN FunctionNames},
     Callee : {oldFunction(FunctionNames[i]) : i \in DOMAIN FunctionNames}
                  \cup {FunctionDispatcher},
     Operand : {oldFunction(FunctionNames[i]) : i \in DOMAIN FunctionNames}
                  \cup {NoFunction},
     Prototype : Prototypes]

\* the functions run has replaced so far
OldFunctions == DOMAIN OldToNew

\* F->users() holds the call
usedBy(F, Call) == Call.Callee = F \/ Call.Operand = F

\* IsInIsolatedFunction(Call): the function the call is in is a new one
IsInIsolatedFunction(Call) == oldFunction(Call.Caller) \in OldFunctions

IdleEnforceVars ==
    /\ Binary = [n \in {} |-> FT_Regular]
    /\ ModuleCall = [Caller |-> "f", Callee |-> FunctionDispatcher,
                     Operand |-> NoFunction, Prototype |-> NoType]
    /\ OldToNew = <<>>
    /\ RegularCalls = <<>>
    /\ NewCalls = <<>>
    /\ enforcePC = [Phase |-> "functions", I |-> 1]

IdlePassVars ==
    IdleRegisterVars /\ IdleAliasVars /\ IdleHelperVars /\ IdleEnforceVars

InitEnforceVars ==
    /\ Binary \in [{FunctionNames[i] : i \in DOMAIN FunctionNames}
                      -> {FT_Regular, FT_Fake}]
    /\ ModuleCall \in ModuleCalls
    /\ OldToNew = <<>>
    /\ RegularCalls = <<>>
    /\ NewCalls = <<>>
    /\ enforcePC = [Phase |-> "functions", I |-> 1]

\* run: one iteration of the loop over Binary.Functions, a Fake function
SkipFakeFunction ==
    /\ enforcePC.Phase = "functions"
    /\ enforcePC.I <= Len(FunctionNames)
    /\ Binary[FunctionNames[enforcePC.I]] = FT_Fake
    /\ enforcePC' = [enforcePC EXCEPT !.I = @ + 1]
    /\ UNCHANGED <<Binary, ModuleCall, OldToNew, RegularCalls, NewCalls,
                   exceptEnforceVars>>

\* run: one iteration of the loop over Binary.Functions, any other function
HandleFunction ==
    /\ enforcePC.Phase = "functions"
    /\ enforcePC.I <= Len(FunctionNames)
    /\ Binary[FunctionNames[enforcePC.I]] # FT_Fake
    /\ LET OldFunction == oldFunction(FunctionNames[enforcePC.I])
       IN OldToNew' = mapSet(OldToNew, OldFunction, handleFunction(OldFunction))
    /\ enforcePC' = [enforcePC EXCEPT !.I = @ + 1]
    /\ UNCHANGED <<Binary, ModuleCall, RegularCalls, NewCalls, exceptEnforceVars>>

\* run: "Handle function calls in isolated functions", the collection
CollectRegularCalls ==
    /\ enforcePC.Phase = "functions"
    /\ enforcePC.I > Len(FunctionNames)
    /\ RegularCalls' =
          IF /\ \E F \in OldFunctions : usedBy(F, ModuleCall)
             /\ IsInIsolatedFunction(ModuleCall)
          THEN <<ModuleCall>>
          ELSE <<>>
    /\ enforcePC' = [enforcePC EXCEPT !.Phase = "calls"]
    /\ UNCHANGED <<Binary, ModuleCall, OldToNew, NewCalls, exceptEnforceVars>>

\* generateCall(Builder, Callee, CallSite): the call it creates, with the
\* CSVs it loads the arguments from and stores the results to
generateCall(Callee, CallSite) ==
    LET IsIndirect == Callee # FunctionDispatcher
    IN [Target |-> IF IsIndirect
                   THEN indirectPlaceholder(toLLVMType(CallSite.Prototype))
                   ELSE Callee,
        Arguments |-> CallSite.Prototype.Arguments,
        ReturnCSVs |-> CallSite.Prototype.ReturnValues,
        Call |-> CallSite]

\* handleRegularFunctionCall(Call)
HandleRegularFunctionCall ==
    /\ enforcePC.Phase = "calls"
    /\ RegularCalls # <<>>
    /\ LET Call == Head(RegularCalls)
           IsDirect == Call.Callee # FunctionDispatcher
       IN IF IsDirect /\ Call.Callee \notin DOMAIN OldToNew
          THEN /\ enforcePC' = [enforcePC EXCEPT !.Phase = "out_of_range"]
               /\ UNCHANGED <<RegularCalls, NewCalls>>
          ELSE /\ NewCalls' =
                     Append(NewCalls,
                            generateCall(IF IsDirect THEN OldToNew[Call.Callee]
                                         ELSE Call.Callee,
                                         Call))
               /\ RegularCalls' = Tail(RegularCalls)
               /\ UNCHANGED enforcePC
    /\ UNCHANGED <<Binary, ModuleCall, OldToNew, exceptEnforceVars>>

\* run: from "Drop function_dispatcher" to the end
DropOldFunctions ==
    /\ enforcePC.Phase = "calls"
    /\ RegularCalls = <<>>
    /\ enforcePC' = [enforcePC EXCEPT !.Phase = "done"]
    /\ UNCHANGED <<Binary, ModuleCall, OldToNew, RegularCalls, NewCalls,
                   exceptEnforceVars>>

NextEnforce ==
    \/ SkipFakeFunction
    \/ HandleFunction
    \/ CollectRegularCalls
    \/ HandleRegularFunctionCall
    \/ DropOldFunctions

(***************************************************************************)
(* Interprocedural fixpoint driver                                         *)
(***************************************************************************)
\* the entry points of the call graph: a cycle, each one calling the next
CycleCFEPs == QueriedCFEPs

\* the entry point that BB calls
calleeOf(BB) == (BB % Cardinality(CycleCFEPs)) + 1

\* the entry points that call BB
callersOf(BB) == {C \in CycleCFEPs : calleeOf(C) = BB}

\* the orders in which the entry points can be enqueued at the start
QueueOrders ==
    {q \in [CycleCFEPs -> CycleCFEPs] : \A i, j \in CycleCFEPs : q[i] = q[j] => i = j}

\* the per-entry-point analyses: what the body clobbers by itself, and how
\* the summary of the callee enters the result: "union" adds what the callee
\* clobbers, "swap" adds the last register if the callee clobbers the first
\* one and the first register otherwise
AnalysisKinds == {"union", "swap"}

OwnClobbers == {{}} \cup {{r} : r \in Registers}

\* the registers the analysis of an entry point finds clobbered, given what
\* the oracle says its callee clobbers
clobberedBy(A, CalleeClobbered) ==
    IF A.Kind = "union"
    THEN A.Own \cup CalleeClobbered
    ELSE A.Own \cup (IF 1 \in CalleeClobbered THEN {NumRegisters} ELSE {1})

\* the candidate summary for BB under the oracle's current summaries
analyze(BB) ==
    [Type |-> FT_Regular,
     ClobberedRegisters |->
         clobberedBy(Analyses[BB], getRegistersClobbered(calleeOf(BB))),
     ElectedFSO |-> NoFSO,
     FakeFunction |-> NullFunction]

\* how many reported changes per entry point and register the bound allows
ChangeFactor == 2

\* the hard iteration cap
IterationCap == (ChangeFactor + 1) * Cardinality(CycleCFEPs) * NumRegisters

\* the queue after BB, its head, has been analyzed
queueAfter(Q, BB, Changed) ==
    IF Changed
    THEN Tail(Q) \o SelectSeq([i \in 1..Cardinality(CycleCFEPs) |-> i],
                              LAMBDA C : /\ C \in callersOf(BB)
                                         /\ \A n \in DOMAIN Tail(Q) : Tail(Q)[n] # C)
    ELSE Tail(Q)

IdleDriverVars ==
    /\ Analyses = <<>>
    /\ Queue = <<>>
    /\ driverPC = [Phase |-> "running", Iterations |-> 0, Changes |-> 0]

InitDriverVars ==
    /\ Analyses \in [CycleCFEPs -> [Kind : AnalysisKinds, Own : OwnClobbers]]
    /\ Queue \in QueueOrders
    /\ driverPC = [Phase |-> "running", Iterations |-> 0, Changes |-> 0]

\* steps 1 to 4: pop an entry point, analyze it, register the candidate and
\* re-enqueue the callers if registerFunction reports a change
AnalyzeEntryPoint ==
    /\ driverPC.Phase = "running"
    /\ Queue # <<>>
    /\ driverPC.Iterations < IterationCap
    /\ LET BB == Head(Queue)
           Changed == registerReturns(BB, analyze(BB))
       IN /\ FunctionsBucket' = bucketAfterRegister(BB, analyze(BB))
          /\ Queue' = queueAfter(Queue, BB, Changed)
          /\ driverPC' = [driverPC EXCEPT
                             !.Iterations = @ + 1,
                             !.Changes = IF Changed THEN @ + 1 ELSE @]
    /\ UNCHANGED <<Analyses, DefaultSummary, Last, Got, exceptDriverVars>>

\* step 5: the queue is empty
DriverStable ==
    /\ driverPC.Phase = "running"
    /\ Queue = <<>>
    /\ driverPC' = [driverPC EXCEPT !.Phase = "stable"]
    /\ UNCHANGED <<Analyses, Queue, oracleVars, exceptDriverVars>>

\* step 5: the iteration cap is hit
DriverCap ==
    /\ driverPC.Phase = "running"
    /\ Queue # <<>>
    /\ driverPC.Iterations >= IterationCap
    /\ driverPC' = [driverPC EXCEPT !.Phase = "cap"]
    /\ UNCHANGED <<Analyses, Queue, oracleVars, exceptDriverVars>>

NextDriver ==
    \/ AnalyzeEntryPoint
    \/ DriverStable
    \/ DriverCap

(***************************************************************************)
(* Specifications                                                          *)
(***************************************************************************)
\* the oracle after construction, driven by registerFunction
IdleCombineVars ==
    /\ LH = Maybe
    /\ RH = Maybe
    /\ TH = Maybe
    /\ Result = [c \in Calls |-> Pending]
    /\ Emitted = NotEmitted

Init ==
    /\ IdleCombineVars
    /\ IdleABIVars
    /\ IdleDriverVars
    /\ IdlePassVars
    /\ InitOracleVars
    /\ DefaultSummary.Type = FT_Regular

Next == RegisterFunction

Spec == Init /\ [][Next]_vars

\* the oracle with its getters, over the queried entry points
InitOracle ==
    IdleCombineVars /\ IdleABIVars /\ IdleDriverVars /\ IdlePassVars /\ InitOracleVars

NextOracle ==
    \/ RegisterSummary
    \/ Query

SpecOracle == InitOracle /\ [][NextOracle]_vars

\* combine applied to every triple of operands
InitCombine ==
    /\ InitCombineVars
    /\ IdleABIVars
    /\ IdleDriverVars
    /\ IdlePassVars
    /\ InitOracleVars
    /\ DefaultSummary.Type = FT_Regular

NextCombine ==
    \/ CombineLR
    \/ CombineRL
    \/ CombineLeftNested
    \/ CombineRightNested
    \/ ShouldEmit

SpecCombine == InitCombine /\ [][NextCombine]_vars

\* analyzeOutlinedFunction on a function with one call site and one return,
\* over every result of the two analyses of the entry block
ArgsBlocks ==
    <<callBlock(1, 1, (1 :> Yes), (1 :> Yes), (1 :> Dead)),
      retBlock(2, (1 :> Yes))>>

InitArgs ==
    /\ IdleCombineVars
    /\ InitOracleVars
    /\ DefaultSummary.Type = FT_Regular
    /\ Fn \in [UAOF : RegisterMaps(ValidState),
               DRAOF : RegisterMaps(ValidState),
               Blocks : {ArgsBlocks}]
    /\ StartABIVars
    /\ IdleDriverVars
    /\ IdlePassVars

SpecArgs == InitArgs /\ [][NextABI]_vars

\* analyzeOutlinedFunction on functions of up to two blocks, call sites or
\* returns, the blocks laid out in memory in either order
SitePCs == {1, 2}

ArgSiteMaps == {EmptyMap, (1 :> Contradiction), (1 :> Yes), (NumRegisters :> Yes)}

UsedSiteMaps == {EmptyMap, (1 :> Yes), (NumRegisters :> Yes)}

DeadSiteMaps == {EmptyMap, (1 :> Dead)}

SiteBlocks(bb) ==
    {callBlock(pc, bb, ra, ur, dr) :
        pc \in SitePCs, ra \in ArgSiteMaps, ur \in UsedSiteMaps, dr \in DeadSiteMaps}
    \cup {retBlock(bb, m) : m \in RegisterMaps({Yes, Maybe})}

SiteBlockLists ==
    {<<>>}
    \cup {<<x>> : x \in SiteBlocks(1)}
    \cup {<<x, y>> : x \in SiteBlocks(1), y \in SiteBlocks(2)}
    \cup {<<x, y>> : x \in SiteBlocks(2), y \in SiteBlocks(1)}

InitSites ==
    /\ IdleCombineVars
    /\ InitOracleVars
    /\ DefaultSummary.Type = FT_Regular
    /\ Fn \in [UAOF : {(1 :> Yes)},
               DRAOF : {(1 :> Dead)},
               Blocks : SiteBlockLists]
    /\ StartABIVars
    /\ IdleDriverVars
    /\ IdlePassVars

SpecSites == InitSites /\ [][NextABI]_vars

\* getRegisterName and fromRegisterName on every register and architecture
InitRegisters ==
    /\ IdleCombineVars
    /\ IdleABIVars
    /\ IdleDriverVars
    /\ InitOracleVars
    /\ DefaultSummary.Type = FT_Regular
    /\ InitRegisterVars
    /\ IdleAliasVars
    /\ IdleHelperVars
    /\ IdleEnforceVars

NextRegisters ==
    \/ GetRegisterName
    \/ FromRegisterName

SpecRegisters == InitRegisters /\ [][NextRegisters]_vars

\* one CSVAliasAnalysisPass run on a sequence of functions
InitAlias ==
    /\ IdleCombineVars
    /\ IdleABIVars
    /\ IdleDriverVars
    /\ InitOracleVars
    /\ DefaultSummary.Type = FT_Regular
    /\ IdlePassVars

SpecAlias == InitAlias /\ [][NextAlias]_vars

\* RemoveHelperCallsPass on every function of up to three instructions
InitHelper ==
    /\ IdleCombineVars
    /\ IdleABIVars
    /\ IdleDriverVars
    /\ InitOracleVars
    /\ DefaultSummary.Type = FT_Regular
    /\ IdleRegisterVars
    /\ IdleAliasVars
    /\ InitHelperVars
    /\ IdleEnforceVars

SpecHelper == InitHelper /\ [][NextHelper]_vars

\* EnforceABI on a module of two functions and a call
InitEnforce ==
    /\ IdleCombineVars
    /\ IdleABIVars
    /\ IdleDriverVars
    /\ InitOracleVars
    /\ DefaultSummary.Type = FT_Regular
    /\ IdleRegisterVars
    /\ IdleHelperVars
    /\ IdleAliasVars
    /\ InitEnforceVars

SpecEnforce == InitEnforce /\ [][NextEnforce]_vars

\* registerFunction alone, on several entry points with the full summaries:
\* every content the bucket can have
InitBucket == InitOracle

NextBucket == RegisterSummary

SpecBucket == InitBucket /\ [][NextBucket]_vars

\* the fixpoint driver on a cycle of entry points, for every analysis of
\* each, every order of the queue and every default summary
InitDriver ==
    /\ IdleCombineVars
    /\ IdleABIVars
    /\ IdlePassVars
    /\ InitOracleVars
    /\ InitDriverVars

SpecDriver == InitDriver /\ [][NextDriver]_vars

\* the driver never stops while it has a step to take
SpecDriverFair == SpecDriver /\ WF_vars(NextDriver)

(***************************************************************************)
(* Properties of combine                                                   *)
(***************************************************************************)
\* the table of the specification, section 4.1, by rows A and columns B
specTable(A, B) ==
    CASE A = Yes ->
           IF B \in {Yes, YesOrDead, Maybe} THEN Yes ELSE Contradiction
      [] A = YesOrDead ->
           IF B = Yes THEN Yes
           ELSE IF B \in {Maybe, YesOrDead} THEN YesOrDead
           ELSE IF B \in {Dead, NoOrDead} THEN Dead
           ELSE Contradiction
      [] A = No ->
           IF B \in {No, NoOrDead, Maybe} THEN No ELSE Contradiction
      [] A = NoOrDead ->
           IF B = No THEN No
           ELSE IF B \in {Maybe, NoOrDead} THEN NoOrDead
           ELSE IF B \in {Dead, YesOrDead} THEN Dead
           ELSE Contradiction
      [] A = Dead ->
           IF B \in {Dead, Maybe, NoOrDead, YesOrDead} THEN Dead ELSE Contradiction
      [] A = Maybe -> B
      [] A = Contradiction -> Contradiction

ValidPair == LH \in ValidState /\ RH \in ValidState
ValidTriple == ValidPair /\ TH \in ValidState
Done(c) == Result[c] # Pending

\* C1: for every ordered pair of non-Invalid values, combine returns (no
\* abort), the value returned is the one the specification's table gives for
\* that row and column, and it is never Invalid.
C1_CombineMatchesTable ==
    ValidPair =>
        /\ Done("ab") => /\ Result["ab"] = specTable(LH, RH)
                         /\ Result["ab"] \in ValidState
        /\ Done("ba") => /\ Result["ba"] = specTable(RH, LH)
                         /\ Result["ba"] \in ValidState

C1_Witness ==
    /\ LH = YesOrDead
    /\ RH = NoOrDead
    /\ Result["ab"] = Dead
    /\ Result["ba"] = Dead

\* C2: combine is commutative on the non-Invalid values: the call with the
\* operands in one order and the call with them swapped return the same value.
C2_Commutative ==
    (ValidPair /\ Done("ab") /\ Done("ba")) => Result["ab"] = Result["ba"]

C2_Witness ==
    /\ LH = NoOrDead
    /\ RH = YesOrDead
    /\ Done("ab")
    /\ Done("ba")
    /\ Result["ab"] = Dead

\* C3: combine is associative on the non-Invalid values: grouping three
\* operands to the left or to the right returns the same value.
C3_Associative ==
    (ValidTriple /\ Done("ab_c") /\ Done("a_bc")) =>
        Result["ab_c"] = Result["a_bc"]

C3_Witness ==
    /\ LH = YesOrDead
    /\ RH = NoOrDead
    /\ TH = YesOrDead
    /\ Result["ab_c"] = Dead
    /\ Result["a_bc"] = Dead

\* C4: Maybe is a two-sided identity: with x a non-Invalid value,
\* combine(x, Maybe) = x and combine(Maybe, x) = x.
C4_MaybeIdentity ==
    (LH \in ValidState /\ RH = Maybe) =>
        /\ Done("ab") => Result["ab"] = LH
        /\ Done("ba") => Result["ba"] = LH

C4_Witness ==
    /\ LH = Dead
    /\ RH = Maybe
    /\ Result["ab"] = Dead
    /\ Result["ba"] = Dead

\* C5: Contradiction is absorbing in both positions: with x a non-Invalid
\* value, combine(x, Contradiction) and combine(Contradiction, x) are
\* Contradiction.
C5_ContradictionAbsorbs ==
    (LH \in ValidState /\ RH = Contradiction) =>
        /\ Done("ab") => Result["ab"] = Contradiction
        /\ Done("ba") => Result["ba"] = Contradiction

C5_Witness ==
    /\ LH = Maybe
    /\ RH = Contradiction
    /\ Result["ab"] = Contradiction
    /\ Result["ba"] = Contradiction

\* C6: an Invalid operand in either position makes combine abort: whenever
\* one of the two operands is Invalid, the call ends in revng_abort and
\* returns no value.
C6_InvalidAborts ==
    (LH = Invalid \/ RH = Invalid) =>
        /\ Done("ab") => Result["ab"] = Abort
        /\ Done("ba") => Result["ba"] = Abort

\* A <= B in the order induced by combine
Leq(A, B) == combine(A, B) = B

\* C7: the non-Invalid values form a lattice under combine: A <= B, defined
\* as combine(A, B) = B, is reflexive, antisymmetric and transitive, Maybe is
\* the least and Contradiction the greatest element, and the value combine
\* returned for two operands is their least upper bound.
C7_Lattice ==
    ValidTriple =>
        /\ Leq(LH, LH)
        /\ (Leq(LH, RH) /\ Leq(RH, LH)) => LH = RH
        /\ (Leq(LH, RH) /\ Leq(RH, TH)) => Leq(LH, TH)
        /\ Leq(Maybe, LH)
        /\ Leq(LH, Contradiction)
        /\ Done("ab") =>
              /\ Leq(LH, Result["ab"])
              /\ Leq(RH, Result["ab"])
              /\ (Leq(LH, TH) /\ Leq(RH, TH)) => Leq(Result["ab"], TH)

C7_Witness ==
    /\ LH = YesOrDead
    /\ RH = NoOrDead
    /\ TH = Contradiction
    /\ Result["ab"] = Dead
    /\ Leq(LH, TH)
    /\ Leq(RH, TH)

(***************************************************************************)
(* Properties of the oracle                                                *)
(***************************************************************************)
\* the last call replaced an entry that was already there
Replaced == Last.BB # 0 /\ Last.HadOld
Stored == FunctionsBucket[Last.BB]

\* C8: monotonicity of the stored summaries: the summary stored by a call
\* either includes the clobber set stored before it or narrowed its Type from
\* Regular to NoReturn; the Type never goes back from NoReturn to Regular and
\* the clobber set loses no register while the Type stays the same.
C8_StoredMonotone ==
    Replaced =>
        /\ \/ Last.Old.ClobberedRegisters \subseteq Stored.ClobberedRegisters
           \/ (Last.Old.Type = FT_Regular /\ Stored.Type = FT_NoReturn)
        /\ ~(Last.Old.Type = FT_NoReturn /\ Stored.Type = FT_Regular)
        /\ (Last.Old.Type = Stored.Type) =>
              Last.Old.ClobberedRegisters \subseteq Stored.ClobberedRegisters

\* C9 as stated: a candidate whose Type differs from the stored one is
\* accepted and reported as a change, whichever of the two types is the old
\* one.
C9_AnyTypeChangeReported ==
    (Replaced /\ Last.New.Type # Last.Old.Type) =>
        /\ Last.Ret = TRUE
        /\ Stored = Last.New

\* C9 amended: a candidate whose Type differs from the stored one is always
\* stored, and it is reported as a change exactly when its Type comes later
\* than the stored one in the order Regular < NoReturn < Fake.
C9_TypeChangeReportedUpward ==
    (Replaced /\ Last.New.Type # Last.Old.Type) =>
        /\ Last.Ret = (Last.New.Type > Last.Old.Type)
        /\ Stored = Last.New

C9_Witness ==
    /\ Replaced
    /\ Last.Old.Type = FT_NoReturn
    /\ Last.New.Type = FT_Regular
    /\ Last.Ret = FALSE
    /\ Stored = Last.New

StrictSuperset(A, B) == B \subseteq A /\ A # B
Incomparable(A, B) == ~(A \subseteq B) /\ ~(B \subseteq A)

C11_ConvergedKeepsStored ==
    (Replaced /\ Last.Ret = FALSE) =>
        /\ Stored.Type = Last.Old.Type
        /\ Stored.ClobberedRegisters = Last.Old.ClobberedRegisters

\* C12: registering a summary with the Type and the clobber set already
\* stored reports no change and leaves the stored Type and clobber set as
\* they were, at every repetition.
C12_Idempotent ==
    (/\ Replaced
     /\ Last.New.Type = Last.Old.Type
     /\ Last.New.ClobberedRegisters = Last.Old.ClobberedRegisters) =>
        /\ Last.Ret = FALSE
        /\ Stored.Type = Last.Old.Type
        /\ Stored.ClobberedRegisters = Last.Old.ClobberedRegisters

C12_Witness ==
    /\ Replaced
    /\ Last.New = Last.Old
    /\ Last.Old.ClobberedRegisters = Registers
    /\ Last.Ret = FALSE
    /\ Stored = Last.Old

\* the fields of summary S, in the shape the getters return them
fieldsOf(S) ==
    [Type |-> S.Type,
     IsFake |-> (S.Type = FT_Fake),
     FakeFunction |-> S.FakeFunction,
     Clobbered |-> S.ClobberedRegisters,
     ElectedFSO |-> S.ElectedFSO]

gotFields ==
    [Type |-> Got.Type,
     IsFake |-> Got.IsFake,
     FakeFunction |-> Got.FakeFunction,
     Clobbered |-> Got.Clobbered,
     ElectedFSO |-> Got.ElectedFSO]

\* C13: for an entry point that has no entry, whatever was registered for
\* the others, the five getters return the fields of the default summary
\* given at construction; for a registered entry point they return the
\* fields of its own stored summary.
C13_GettersTolerateAbsent ==
    Got.BB # 0 =>
        IF Got.BB \in DOMAIN FunctionsBucket
        THEN gotFields = fieldsOf(FunctionsBucket[Got.BB])
        ELSE gotFields = fieldsOf(DefaultSummary)

\* an absent entry point queried after another one was registered with a
\* summary that differs from the default in every field
C13_Witness ==
    /\ Got.BB = 1
    /\ DOMAIN FunctionsBucket = {2}
    /\ FunctionsBucket[2].Type # DefaultSummary.Type
    /\ FunctionsBucket[2].ClobberedRegisters # DefaultSummary.ClobberedRegisters
    /\ FunctionsBucket[2].ElectedFSO # DefaultSummary.ElectedFSO
    /\ FunctionsBucket[2].FakeFunction # DefaultSummary.FakeFunction
    /\ gotFields = fieldsOf(DefaultSummary)

\* C19: a register whose state is Contradiction is kept explicit by the
\* consumer-side predicate: shouldEmit called on Contradiction returns true.
C19_ContradictionEmitted ==
    (LH = Contradiction /\ Emitted.Called) => Emitted.Value = TRUE

(***************************************************************************)
(* Properties of analyzeOutlinedFunction                                   *)
(***************************************************************************)
Returned == apc.Phase = "done"

\* the value of a map at a register, a missing entry being Maybe
valueOr(M, r) == IF r \in DOMAIN M THEN M[r] ELSE Maybe

\* C14: in the FinalResults that analyzeOutlinedFunction returns, the keys of
\* Arguments are the registers that UAOF or DRAOF of the entry block mention,
\* and the value of each is combine of the two entries, a missing one being
\* Maybe
C14_ArgumentsCombineEntry ==
    Returned =>
        /\ DOMAIN FinalResults.Arguments = DOMAIN Fn.UAOF \cup DOMAIN Fn.DRAOF
        /\ \A r \in DOMAIN FinalResults.Arguments :
              FinalResults.Arguments[r]
                  = combine(valueOr(Fn.UAOF, r), valueOr(Fn.DRAOF, r))

\* a register that only DRAOF mentions and one that both mention
C14_Witness ==
    /\ Returned
    /\ DOMAIN Fn.UAOF = {1}
    /\ DOMAIN Fn.DRAOF = Registers
    /\ Fn.UAOF[1] = YesOrDead
    /\ Fn.DRAOF[1] = Dead
    /\ FinalResults.Arguments[1] = Dead
    /\ FinalResults.Arguments[NumRegisters] = Fn.DRAOF[NumRegisters]

\* C20: a register that DRAOF of the entry block gives as Dead is never Yes in
\* the returned Arguments, whatever non-Invalid value UAOF gives it and also
\* when UAOF does not mention it
C20_DeadArgumentNeverYes ==
    Returned =>
        \A r \in DOMAIN Fn.DRAOF :
            Fn.DRAOF[r] = Dead =>
                /\ r \in DOMAIN FinalResults.Arguments
                /\ FinalResults.Arguments[r] # Yes

\* used and dead at once, next to a register that only DRAOF mentions
C20_Witness ==
    /\ Returned
    /\ Fn.UAOF = (1 :> Yes)
    /\ Fn.DRAOF = [r \in Registers |-> Dead]
    /\ FinalResults.Arguments[1] = Contradiction
    /\ FinalResults.Arguments[NumRegisters] = Dead

\* the blocks of the outlined function of one kind, by position
blocksOfKind(K) == {i \in 1..Len(Fn.Blocks) : Fn.Blocks[i].Kind = K}

\* C17: the returned function-level ReturnValues is the URVOF result as the
\* scan left it, entry for entry; for a function with a single return it is
\* the map the analysis gave for that return block, for one with no return it
\* is empty
C17_ReturnValuesVerbatim ==
    Returned =>
        /\ FinalResults.ReturnValues = Results.URVOF
        /\ \A i \in blocksOfKind("ret") :
              blocksOfKind("ret") = {i} =>
                  FinalResults.ReturnValues = Fn.Blocks[i].URVOF
        /\ blocksOfKind("ret") = {} => FinalResults.ReturnValues = EmptyMap

\* a single return whose map holds a Maybe and a Yes, next to a call site
C17_Witness ==
    /\ Returned
    /\ blocksOfKind("call") # {}
    /\ \E i \in blocksOfKind("ret") :
          /\ blocksOfKind("ret") = {i}
          /\ Fn.Blocks[i].URVOF = (1 :> Maybe) @@ (NumRegisters :> Yes)
    /\ FinalResults.ReturnValues = (1 :> Maybe) @@ (NumRegisters :> Yes)

\* C15: for every call-site block, the returned CallSites[PC].Arguments is
\* exactly the RAOFC map of that block, same registers and same states
C15_SiteArgumentsAreBlockRAOFC ==
    Returned =>
        \A i \in blocksOfKind("call") :
            siteOf(FinalResults.CallSites, Fn.Blocks[i].PC).Arguments
                = Fn.Blocks[i].RAOFC

\* C16: for every call-site block, the returned CallSites[PC].ReturnValues has
\* the registers of URVOFC and DRVOFC of that block as keys, each with combine
\* of the two values, a missing one being Maybe
C16_SiteReturnValuesAreBlockCombine ==
    Returned =>
        \A i \in blocksOfKind("call") :
            LET U == Fn.Blocks[i].URVOFC
                D == Fn.Blocks[i].DRVOFC
            IN siteOf(FinalResults.CallSites, Fn.Blocks[i].PC).ReturnValues
                   = [r \in DOMAIN U \cup DOMAIN D |->
                         combine(valueOr(U, r), valueOr(D, r))]

\* the value the returned results hold at a place where something was written
valueAt(W) ==
    CASE W[1] = "Arguments" -> FinalResults.Arguments[W[3]]
      [] W[1] = "SiteArguments" -> FinalResults.CallSites[W[2]].Arguments[W[3]]
      [] W[1] = "SiteReturnValues" -> FinalResults.CallSites[W[2]].ReturnValues[W[3]]

\* C18: wherever a merge step wrote Contradiction, in Arguments, in
\* CallSites[PC].Arguments or in CallSites[PC].ReturnValues, the returned
\* results hold Contradiction
C18_ContradictionKept ==
    Returned => \A W \in Contradicted : valueAt(W) = Contradiction

\* the position of the last block of a non-empty set of positions
lastOf(S) == CHOOSE i \in S : \A j \in S : j <= i

\* C25: the returned function-level ReturnValues is the URVOF map of the last
\* return in instruction order, whatever the earlier returns gave, and is
\* empty when the function has no return
C25_LastReturnWins ==
    Returned =>
        IF blocksOfKind("ret") = {}
        THEN FinalResults.ReturnValues = EmptyMap
        ELSE FinalResults.ReturnValues = Fn.Blocks[lastOf(blocksOfKind("ret"))].URVOF

\* two returns, the first one with a register the second one lacks
C25_Witness ==
    /\ Returned
    /\ Len(Fn.Blocks) = 2
    /\ Fn.Blocks[1].Kind = "ret"
    /\ Fn.Blocks[2].Kind = "ret"
    /\ Fn.Blocks[1].URVOF = (1 :> Yes) @@ (NumRegisters :> Yes)
    /\ Fn.Blocks[2].URVOF = (1 :> Maybe)
    /\ FinalResults.ReturnValues = (1 :> Maybe)

(***************************************************************************)
(* Frame of registerFunction                                               *)
(***************************************************************************)
\* the queried entry points and one that is never registered
AnyCFEPs == 1..(NumQueriedCFEPs + 1)

\* C26: a call registerFunction(BB, F) leaves what get returns for every
\* other entry point as it was, registered or not, and leaves the default
\* summary as it was
C26_RegisterChangesOnlyBB ==
    [][\A BB \in QueriedCFEPs :
           (Registered(BB)' /\ registerFunction(BB, FunctionsBucket'[BB])) =>
               /\ DefaultSummary' = DefaultSummary
               /\ \A C \in AnyCFEPs \ {BB} : get(C)' = get(C)]_vars

\* two entry points registered with different summaries, neither the default,
\* next to one that is not registered
C26_Witness ==
    /\ Registered(1)
    /\ Registered(NumQueriedCFEPs)
    /\ get(1) # get(NumQueriedCFEPs)
    /\ get(1) # DefaultSummary
    /\ get(NumQueriedCFEPs) # DefaultSummary
    /\ get(NumQueriedCFEPs + 1) = DefaultSummary

(***************************************************************************)
(* Properties of the register names                                        *)
(***************************************************************************)
\* Name ends with Suffix
endsWith(Name, Suffix) ==
    /\ Len(Name) >= Len(Suffix)
    /\ SubSeq(Name, Len(Name) - Len(Suffix) + 1, Len(Name)) = Suffix

\* the architectures of the suffix of V's name: the longest suffix decides
\* between x86 and x86_64
archsOf(V) ==
    {A \in DOMAIN ArchSuffix :
        /\ endsWith(EnumCases[V + 1], ArchSuffix[A])
        /\ \A B \in DOMAIN ArchSuffix :
              endsWith(EnumCases[V + 1], ArchSuffix[B])
                  => Len(ArchSuffix[B]) <= Len(ArchSuffix[A])}

\* C30: for a register V other than Invalid, fromRegisterName of
\* getRegisterName(V) under the architecture of V's suffix is V, and under an
\* architecture outside the list fromRegisterName gives Invalid
C30_RegisterNameRoundTrip ==
    RegParsed.Called =>
        /\ archsOf(RegV) # {}
        /\ RegArch \in archsOf(RegV) => RegParsed.Value = RegV
        /\ RegArch \notin DOMAIN ArchSuffix => RegParsed.Value = Register_Invalid

\* r8 exists on three architectures: the one of x86_64 comes back under x86_64
C30_Witness ==
    /\ RegParsed.Called
    /\ EnumCases[RegV + 1] = "r8_x86_64"
    /\ RegName = "r8"
    /\ RegArch = "x86_64"
    /\ RegParsed.Value = RegV

(***************************************************************************)
(* Properties of CSVAliasAnalysisPass                                      *)
(***************************************************************************)
\* the operands of a metadata node
operands(MD) == {MD[i] : i \in DOMAIN MD}

\* the scope the map records for a CSV
scopeOf(c) == CSVAliasInfoMap[c].AliasScope

\* the instructions of the current function already decorated
decorated == {i \in DOMAIN AliasF : i < aliasPC.I \/ aliasPC.Phase = "idle"}

\* C28: once initializeAliasInfo has run, the NoAliasSet of every CSV holds
\* the scope of every other CSV and not its own, and a decorated load or store
\* of a CSV has that CSV's scope in alias.scope and the scopes of all the other
\* CSVs, not its own, in noalias
C28_NoAliasIsTheOthers ==
    AliasRuns > 0 =>
        /\ \A c \in CSVs :
              /\ operands(CSVAliasInfoMap[c].NoAliasSet)
                     = {scopeOf(q) : q \in CSVs \ {c}}
              /\ scopeOf(c) \notin operands(CSVAliasInfoMap[c].NoAliasSet)
        /\ \A i \in decorated :
              AliasF[i].Op \in {"load", "store"} /\ AliasF[i].Ptr \in CSVs =>
                  /\ scopeOf(AliasF[i].Ptr) \in operands(AliasF[i].alias_scope)
                  /\ {scopeOf(q) : q \in CSVs \ {AliasF[i].Ptr}}
                         \subseteq operands(AliasF[i].noalias)
                  /\ scopeOf(AliasF[i].Ptr) \notin operands(AliasF[i].noalias)

\* in the last run, a load of the first CSV and a store of the last one
C28_Witness ==
    /\ AliasRuns = MaxRuns
    /\ aliasPC.Phase = "idle"
    /\ Len(AliasF) = 2
    /\ AliasF[1].Op = "load"
    /\ AliasF[1].Ptr = 1
    /\ AliasF[2].Op = "store"
    /\ AliasF[2].Ptr = NumRegisters
    /\ AliasF[1].alias_scope = <<scopeOf(1)>>
    /\ scopeOf(NumRegisters) \in operands(AliasF[1].noalias)
    /\ scopeOf(1) \in operands(AliasF[2].noalias)

\* C29: after any number of runs of one pass, AllCSVScopes holds one scope
\* per CSV, the one the map records for it, and the noalias of a decorated
\* load or store of something that is not a CSV is made of those scopes only
C29_AllCSVScopesCurrent ==
    aliasPC.Phase = "idle" /\ AliasRuns > 0 =>
        /\ Len(AllCSVScopes) = Cardinality(CSVs)
        /\ operands(AllCSVScopes) = {scopeOf(c) : c \in CSVs}
        /\ \A i \in decorated :
              AliasF[i].Op \in {"load", "store"} /\ AliasF[i].Ptr \notin CSVs =>
                  operands(AliasF[i].noalias) = {scopeOf(c) : c \in CSVs}

(***************************************************************************)
(* Properties of RemoveHelperCallsPass                                     *)
(***************************************************************************)
HelperRunDone == helperPC.Phase \in {"all", "none"}

\* how many instructions stand for an instruction of the given function
lengthOf(I) == IF I.Kind = "helper" THEN 1 + 2 * Cardinality(I.Written) ELSE 1

RECURSIVE before(_)
\* how many instructions stand for the ones before position i
before(i) == IF i = 1 THEN 0 ELSE before(i - 1) + lengthOf(HelperIn[i - 1])

\* C27: when the pass is done no call to a helper is left; where a call to
\* a helper was there is one call to original_helper, then a call to
\* regs_clobbered_helper and a store of its value for each CSV the helper
\* writes and for no other; the other instructions are where they were and
\* those that used the value of a removed call use the original_helper call
C27_HelperCallsReplaced ==
    HelperRunDone =>
        /\ \A n \in DOMAIN HelperF : ~isCallToHelper(HelperF[n])
        /\ Len(HelperF) = before(Len(HelperIn) + 1)
        /\ \A i \in DOMAIN HelperIn :
              LET I == HelperIn[i]
                  p == before(i)
                  Stores == {p + 2 * k + 1 : k \in 1..Cardinality(I.Written)}
              IN IF I.Kind = "helper"
                 THEN /\ HelperF[p + 1].Kind = "original_helper"
                      /\ \A n \in Stores :
                            /\ HelperF[n].Kind = "store"
                            /\ HelperF[n - 1].Kind = "regs_clobbered_helper"
                            /\ HelperF[n].Operand = HelperF[n - 1].Id
                      /\ {HelperF[n].Ptr : n \in Stores} = I.Written
                 ELSE /\ HelperF[p + 1].Kind = "other"
                      /\ HelperF[p + 1].Id = I.Id
                      /\ HelperF[p + 1].Operand =
                            IF I.Operand = NoValue
                            THEN NoValue
                            ELSE IF HelperIn[I.Operand].Kind = "helper"
                            THEN HelperF[before(I.Operand) + 1].Id
                            ELSE I.Operand

\* a helper that writes every CSV, its value used by the next instruction,
\* and a helper that writes none
C27_Witness ==
    /\ helperPC.Phase = "none"
    /\ HelperIn = <<helperCall(1, CSVs), otherInstruction(2, 1), helperCall(3, {})>>
    /\ Len(HelperF) = 2 * Cardinality(CSVs) + 3
    /\ HelperF[1].Kind = "original_helper"
    /\ HelperF[3].Kind = "store"
    /\ HelperF[2 * Cardinality(CSVs) + 2].Operand = HelperF[1].Id
    /\ HelperF[2 * Cardinality(CSVs) + 3].Kind = "original_helper"
(***************************************************************************)
(* Properties of EnforceABI                                                *)
(***************************************************************************)
\* C23: the call emitted for a call whose callee is function_dispatcher
\* targets an indirect_placeholder of the type of the call site's prototype,
\* not function_dispatcher
C23_IndirectCallsPlaceholder ==
    \A n \in DOMAIN NewCalls :
        NewCalls[n].Call.Callee = FunctionDispatcher =>
            /\ NewCalls[n].Target
                   = indirectPlaceholder(toLLVMType(NewCalls[n].Call.Prototype))
            /\ NewCalls[n].Target # FunctionDispatcher

\* C24: the call emitted for a call whose callee is an isolated function
\* targets the new function that replaces that callee
C24_DirectCallsNewFunction ==
    \A n \in DOMAIN NewCalls :
        NewCalls[n].Call.Callee # FunctionDispatcher =>
            NewCalls[n].Target = OldToNew[NewCalls[n].Call.Callee]
(***************************************************************************)
(* Properties of the fixpoint driver                                       *)
(***************************************************************************)
\* C21: on a cycle of N entry points over R registers the driver ends with
\* an empty queue or at the cap, and the changes registerFunction has reported
\* by then number at most a multiple of N * R
C21_ChangesBounded ==
    /\ driverPC.Iterations <= IterationCap
    /\ driverPC.Changes <= ChangeFactor * Cardinality(CycleCFEPs) * NumRegisters

\* every entry point adds what its callee clobbers to what its body clobbers,
\* and no two bodies clobber the same register
DisjointBodies ==
    /\ \A BB \in CycleCFEPs : Analyses[BB].Kind = "union"
    /\ \A A, B \in CycleCFEPs : A # B => Analyses[A].Own \cap Analyses[B].Own = {}

\* what the bodies clobber, all together
UnionOfBodies == UNION {Analyses[BB].Own : BB \in CycleCFEPs}

\* C22, as stated: for mutually recursive entry points whose bodies clobber
\* disjoint register sets the driver ends with an empty queue, not at the cap,
\* and the ClobberedRegisters stored for each is then the union of the sets
\* of the bodies
C22_CycleReachesUnion ==
    DisjointBodies =>
        <>(/\ driverPC.Phase = "stable"
           /\ \A BB \in CycleCFEPs : getRegistersClobbered(BB) = UnionOfBodies)

\* C22, as the driver behaves: for mutually recursive entry points whose
\* bodies clobber disjoint register sets the driver ends with an empty queue,
\* not at the cap, and the ClobberedRegisters stored for each is then the
\* union of the sets of the bodies and of the set of the default summary,
\* which stands for the callee not yet registered in the first analysis
C22_CycleReachesUnionAndDefault ==
    DisjointBodies =>
        <>(/\ driverPC.Phase = "stable"
           /\ \A BB \in CycleCFEPs :
                 getRegistersClobbered(BB)
                     = UnionOfBodies \cup DefaultSummary.ClobberedRegisters)

\* two bodies that clobber a register each, under a default summary that
\* clobbers none: the driver has stopped with both at the union
C22_Witness ==
    /\ driverPC.Phase = "stable"
    /\ DisjointBodies
    /\ Analyses[1].Own = {1}
    /\ Analyses[NumQueriedCFEPs].Own = {NumRegisters}
    /\ DefaultSummary.ClobberedRegisters = {}
    /\ \A BB \in CycleCFEPs : Registered(BB)
    /\ \A BB \in CycleCFEPs : getRegistersClobbered(BB) = UnionOfBodies
    /\ driverPC.Changes > Cardinality(CycleCFEPs)
====
